---- MODULE Spec2Model ----
(***************************************************************************)
(* Feature providers of pygeoapi: the Elasticsearch provider               *)
(* (provider/elasticsearch_.py) and the generic SQL provider with its      *)
(* PostgreSQL and MySQL subclasses (provider/sql.py).                      *)
(*                                                                         *)
(* One provider instance is modelled together with the store it talks to.  *)
(* The store is a sequence of records in the store's internal order (index *)
(* order of the documents, heap order of the rows).  A call executes       *)
(* atomically: it records its arguments in `call` and what the caller gets *)
(* back (a dict, or the exception raised) in `response`.                   *)
(*                                                                         *)
(* Conventions: Python None and the empty list are both falsy in every     *)
(* test the handlers make on bbox, properties, sortby, select_properties;  *)
(* they are the empty sequence here.  An optional string is the string     *)
(* "None" when absent.  A dict is a record/function whose DOMAIN is its    *)
(* key set.  The crs_transform decorator and crs_transform_out are the     *)
(* identity (no CRS pair is ever supplied).                                *)
(***************************************************************************)
EXTENDS Integers, Sequences, FiniteSets, TLC

VARIABLES
    driver,             \* which provider class was constructed
    time_field,         \* BaseProvider.time_field ("None" when not configured)
    properties,         \* BaseProvider.properties, the configured allow-list
    fields,             \* BaseProvider._fields, the cached field catalog
    store,              \* the documents / rows of the backing store
    select_properties,  \* ElasticsearchProvider.select_properties
    pc,                 \* "idle": no call in progress; "done": a call returned
    call,               \* arguments of the last call
    response,           \* what the last call returned or raised
    threads,            \* the query calls of concurrent caller threads
    sessions,           \* the SQLAlchemy sessions that are open
    requests,           \* the requests the current call has sent to the store
    backend,            \* the store service: reachable, version, schema
    status,             \* "none": no provider yet; "ready": __init__
                        \* returned; "failed": __init__ raised
    table_models        \* the functools cache of get_table_model

vars == <<driver, time_field, properties, fields, store, select_properties,
          pc, call, response, threads, sessions, requests, backend, status,
          table_models>>

\* What a sequential query leaves alone besides the provider itself
others == <<threads, sessions, requests, backend, status, table_models>>

-----------------------------------------------------------------------------
(* Bounds and program constants *)

ScrollThreshold == 10000

MaxLimit == 2

NumDocs == 4

DeepDocs == 10003

MaxProps == 2

MaxId == 3

None == "None"

\* None where an identifier is expected
NoId == 0

-----------------------------------------------------------------------------
(* Generic helpers *)

Range(s) == {s[i] : i \in DOMAIN s}

Min(a, b) == IF a <= b THEN a ELSE b

Max(a, b) == IF a >= b THEN a ELSE b

IndexOf(s, v) == CHOOSE i \in DOMAIN s : s[i] = v

RECURSIVE Perms(_)
Perms(S) ==
    IF S = {} THEN {<<>>}
    ELSE UNION {{<<x>> \o p : p \in Perms(S \ {x})} : x \in S}

-----------------------------------------------------------------------------
(* The data held by the store *)

\* Geometries are axis-aligned rectangles <<minx, miny, maxx, maxy>>;
\* <<>> is a record without geometry.
Geoms == << <<1, 1, 2, 2>>, <<2, 2, 4, 4>>, <<4, 4, 5, 5>>, <<>> >>

\* Values of the text property, in the order of their raw (keyword) form.
Names == <<"a", "a b", "b">>

\* Values of the temporal property, in chronological order.
TimeValues == <<"2001", "2002", "2003">>

\* The i-th record a store is loaded with.
Doc(i) ==
    [id       |-> i,
     geometry |-> Geoms[(i % 4) + 1],
     datetime |-> TimeValues[(i % 3) + 1],
     name     |-> Names[((i \div 2) % 3) + 1],
     pop      |-> (2 * i) % 3]

LoadedStore(n) == [i \in 1..n |-> Doc(i)]

PropNames == {"name", "pop", "datetime"}

\* What the standard analyzer makes of a text value.
Tokens(s) ==
    CASE s = "a"   -> {"a"}
      [] s = "b"   -> {"b"}
      [] s = "a b" -> {"a", "b"}
      [] s = "b a" -> {"a", "b"}
      [] s = "a|b" -> {"a", "b"}
      [] OTHER     -> {s}

HasPipe(s) == s = "a|b"

TimeRank(t) == IndexOf(TimeValues, t)

NameRank(s) == IndexOf(Names, s)

\* Closed rectangles share at least one point.
RectIntersects(a, b) ==
    /\ a[1] <= b[3] /\ b[1] <= a[3]
    /\ a[2] <= b[4] /\ b[2] <= a[4]

\* Rectangle b lies inside rectangle a.
RectContains(a, b) ==
    /\ a[1] <= b[1] /\ b[3] <= a[3]
    /\ a[2] <= b[2] /\ b[4] <= a[4]

-----------------------------------------------------------------------------
(* Dict helpers *)

\* d[k] = v on a dict
Put(d, k, v) == [x \in DOMAIN d \cup {k} |-> IF x = k THEN v ELSE d[x]]

\* d.pop(k)
Drop(d, k) == [x \in DOMAIN d \ {k} |-> d[x]]

\* d.get(k), None when the key is missing
Get(d, k) == IF k \in DOMAIN d THEN d[k] ELSE None

EmptyDict == [x \in {} |-> None]

-----------------------------------------------------------------------------
(* Elasticsearch provider: compiling the query (elasticsearch_.py) *)

\* ElasticsearchProvider.mask_prop: 'properties.<name>' as a path
mask_prop(property_name) == <<"properties", property_name>>

\* The catalog get_nested_fields builds from the index mapping
\* (text -> string, date -> string/date, long -> number/long).
EsCatalog ==
    [name     |-> [type |-> "string"],
     pop      |-> [type |-> "number", format |-> "long"],
     datetime |-> [type |-> "string", format |-> "date"]]

\* ElasticsearchProvider.get_properties
\* (selected is self.select_properties at the time of the call)
get_properties(selected) ==
    IF properties # <<>> /\ selected # <<>>
    THEN selected                      \* `a and b` is b when a is truthy
    ELSE IF properties # <<>> THEN properties ELSE selected

\* query(): the bbox branch
EsBboxFilter(bbox) ==
    IF bbox # <<>>
    THEN << [kind     |-> "geo_shape",
             shape    |-> [type        |-> "envelope",
                           coordinates |-> << <<bbox[1], bbox[4]>>,
                                              <<bbox[3], bbox[2]>> >>],
             relation |-> "intersects"] >>
    ELSE <<>>

\* query(): the datetime branch once time_field is known to be set.
\* A datetime with a '/' arrives split at the '/': <<begin, end>>;
\* an instant is <<value>>.
EsDatetimeFilter(datetime_) ==
    IF datetime_ = <<>> THEN <<>>
    ELSE IF Len(datetime_) = 2
    THEN LET time_begin == datetime_[1]
             time_end   == datetime_[2]
             both       == [gte |-> time_begin, lte |-> time_end]
             body       == IF time_begin = ".." THEN Drop(both, "gte")
                           ELSE IF time_end = ".." THEN Drop(both, "lte")
                           ELSE both
         IN << [kind  |-> "range",
                field |-> mask_prop(time_field),
                body  |-> body] >>
    ELSE << [kind  |-> "match",
             field |-> mask_prop(time_field),
             body  |-> [query |-> datetime_[1]]] >>

\* query(): the properties branch.  minimum_should_match is set after the
\* loop, on the dict the loop variable pf still names: the last one.
EsPropertyFilters(props) ==
    [i \in 1..Len(props) |->
        LET base == [query |-> props[i][2]]
        IN [kind  |-> "match",
            field |-> mask_prop(props[i][1]),
            body  |-> IF i = Len(props) /\ ~HasPipe(props[Len(props)][2])
                      THEN Put(base, "minimum_should_match", "100%")
                      ELSE base]]

\* query(): one entry of query['sort']
EsSortEntry(sort) ==
    LET sp == sort.property
        sort_property ==
            IF fields[sp].type = "string" /\ Get(fields[sp], "format") # "date"
            THEN mask_prop(sp) \o <<"raw">>
            ELSE mask_prop(sp)
        sort_order == IF sort.order = "-" THEN "desc" ELSE "asc"
    IN [property |-> sort_property, order |-> sort_order]

\* q.split(',')
SplitComma(q) ==
    CASE q = "a"   -> <<"a">>
      [] q = "b"   -> <<"b">>
      [] q = "a,b" -> <<"a", "b">>
      [] OTHER     -> <<q>>

MetadataFields ==
    {mask_prop("_metadata-payload"), mask_prop("_metadata-schema"),
     mask_prop("_metadata-format")}

\* query(): everything up to the search, as the dict `query` with the keys
\* filter (query.bool.filter), must (query.bool.must), sort, _source and
\* cql (the filter update_query merges in).  self.select_properties has
\* been set to c.select_properties by the first statement.
EsCompile(c) ==
    LET filter == EsBboxFilter(c.bbox) \o EsDatetimeFilter(c.datetime_)
                    \o EsPropertyFilters(c.properties)
        q0 == [track_total_hits |-> TRUE, filter |-> filter]
        q1 == IF c.sortby # <<>>
              THEN Put(q0, "sort",
                       [i \in 1..Len(c.sortby) |-> EsSortEntry(c.sortby[i])])
              ELSE q0
        q2 == IF c.q # None
              THEN Put(Put(q1, "must", SplitComma(c.q)),
                       "_source", [excludes |-> MetadataFields])
              ELSE q1
        q3 == IF properties # <<>> \/ c.select_properties # <<>>
              THEN Put(q2, "_source",
                       [includes |->
                          {mask_prop(p) : p \in
                               Range(get_properties(c.select_properties))}
                             \cup {<<"id">>, <<"type">>, <<"geometry">>}])
              ELSE q2
        q4 == IF c.skip_geometry
              THEN IF "_source" \in DOMAIN q3
                   THEN Put(q3, "_source",
                            Put(q3["_source"], "excludes", {<<"geometry">>}))
                   ELSE Put(q3, "_source", [excludes |-> {<<"geometry">>}])
              ELSE q3
        q5 == IF c.filterq # None THEN Put(q4, "cql", c.filterq) ELSE q4
    IN q5

-----------------------------------------------------------------------------
(* The Elasticsearch index: what search and scan answer *)

\* The CQL expressions the external evaluator is given, and their meaning.
CqlHolds(expr, d) ==
    CASE expr = "pop = 0" -> d.pop = 0
      [] expr = "name = 'a'" -> d.name = "a"
      [] OTHER -> TRUE

\* One clause of query.bool.filter against one document.
EsFilterHolds(f, d) ==
    CASE f.kind = "geo_shape" ->
            LET co  == f.shape.coordinates      \* upper left, lower right
                env == <<co[1][1], co[2][2], co[2][1], co[1][2]>>
            IN d.geometry # <<>> /\ RectIntersects(env, d.geometry)
      [] f.kind = "range" ->
            /\ "gte" \in DOMAIN f.body =>
                   TimeRank(d[f.field[2]]) >= TimeRank(f.body.gte)
            /\ "lte" \in DOMAIN f.body =>
                   TimeRank(d[f.field[2]]) <= TimeRank(f.body.lte)
      [] f.kind = "match" ->
            LET p == f.field[2]
            IN IF p = "name"        \* analyzed text: every / any query token
               THEN IF "minimum_should_match" \in DOMAIN f.body
                    THEN Tokens(f.body.query) \subseteq Tokens(d.name)
                    ELSE Tokens(f.body.query) \cap Tokens(d.name) # {}
               ELSE d[p] = f.body.query

\* A range bound that is no date is rejected by the index (RequestError).
EsBadRequest(query) ==
    \E i \in DOMAIN query.filter :
        /\ query.filter[i].kind = "range"
        /\ \E k \in DOMAIN query.filter[i].body :
               query.filter[i].body[k] \notin Range(TimeValues)

EsHolds(query, d) ==
    /\ \A i \in DOMAIN query.filter : EsFilterHolds(query.filter[i], d)
    /\ "must" \in DOMAIN query =>
           \E j \in DOMAIN query.must :
               Tokens(query.must[j]) \subseteq Tokens(d.name)
    /\ "cql" \in DOMAIN query => CqlHolds(query.cql, d)

EsSortKey(d, path) ==
    CASE path[2] = "name"     -> NameRank(d.name)
      [] path[2] = "datetime" -> TimeRank(d.datetime)
      [] OTHER                -> d[path[2]]

MaxSortKey == Max(Len(Names), Len(TimeValues))

\* A stable sort of docs on one sort entry: the documents with the first
\* key value, then those with the next one, each group in index order.
RECURSIVE EsByKey(_, _, _)
EsByKey(docs, entry, k) ==
    IF k > MaxSortKey THEN <<>>
    ELSE LET key == IF entry.order = "desc" THEN MaxSortKey - k ELSE k
         IN SelectSeq(docs, LAMBDA d : EsSortKey(d, entry.property) = key)
               \o EsByKey(docs, entry, k + 1)

\* The matched documents in the order of query.sort; ties and no sort at
\* all leave the index order.
RECURSIVE EsSorted(_, _)
EsSorted(docs, sort) ==
    IF sort = <<>> THEN docs
    ELSE EsByKey(EsSorted(docs, Tail(sort)), Head(sort), 0)

EsResultSet(docs, query) ==
    EsSorted(SelectSeq(docs, LAMBDA d : EsHolds(query, d)),
             IF "sort" \in DOMAIN query THEN query.sort ELSE <<>>)

\* The native id of a document: the id it was indexed under; a document
\* the index was loaded with has its own id member as native id.
DocId(d) == IF "_id" \in DOMAIN d THEN d["_id"] ELSE d.id

\* Source filtering: the index hands out the field at path under the
\* query's _source filter when the includes, if given, name it and the
\* excludes, if given, do not.
SourceVisible(query, path) ==
    LET sf == IF "_source" \in DOMAIN query THEN query["_source"]
              ELSE EmptyDict
    IN /\ "includes" \in DOMAIN sf => path \in sf.includes
       /\ "excludes" \in DOMAIN sf => path \notin sf.excludes

\* The _source a hit carries under the query's source filter.
EsSource(d, query) ==
    LET vis(path) == SourceVisible(query, path)
        props == {p \in PropNames : vis(mask_prop(p))}
        s0 == EmptyDict
        s1 == IF vis(<<"id">>) /\ "id" \in DOMAIN d
              THEN Put(s0, "id", d.id) ELSE s0
        s2 == IF vis(<<"type">>) THEN Put(s1, "type", "Feature") ELSE s1
        s3 == IF vis(<<"geometry">>) /\ d.geometry # <<>>
              THEN Put(s2, "geometry", d.geometry) ELSE s2
        s4 == IF props # {}
              THEN Put(s3, "properties", [p \in props |-> d[p]]) ELSE s3
    IN [_id |-> DocId(d), _source |-> s4]

\* es.search(from_=offset, size=limit, **query)
EsSearch(docs, query, from_, size) ==
    LET rs == EsResultSet(docs, query)
    IN [total |-> Len(rs),
        hits  |-> [j \in 1..Max(0, Min(from_ + size, Len(rs)) - from_) |->
                      EsSource(rs[from_ + j], query)]]

\* helpers.scan(query=query, preserve_order=True): a generator over every
\* matching document in order; a document becomes a hit (EsSource) when
\* next() hands it out.
EsScan(docs, query) == EsResultSet(docs, query)

-----------------------------------------------------------------------------
(* Elasticsearch provider: query and result normalisation *)

\* BaseProvider.id_field as configured
EsIdField == "id"

\* ElasticsearchProvider.esdoc2geojson
esdoc2geojson(doc, selected) ==
    LET src == doc["_source"]
        id_ == IF "properties" \in DOMAIN src
                  /\ EsIdField \in DOMAIN src.properties
               THEN src.properties[EsIdField]
               ELSE IF "id" \in DOMAIN src THEN src.id ELSE doc["_id"]
        geometry == IF "geometry" \in DOMAIN src THEN src.geometry ELSE <<>>
        feature_ == Put(Put(src, "id", id_), "geometry", geometry)
        all_properties == get_properties(selected)
        present == {p \in Range(all_properties) :
                       /\ "properties" \in DOMAIN feature_
                       /\ p \in DOMAIN feature_.properties}
        feature_thinned ==
            [id         |-> id_,
             type       |-> feature_.type,
             geometry   |-> geometry,
             properties |-> [p \in present |-> feature_.properties[p]]]
    IN IF properties # <<>> \/ selected # <<>>
       THEN feature_thinned
       ELSE feature_

\* query(): the items the scan loop appends, from the generator position
\* pos on, for n more rounds; StopIteration ends the loop.
RECURSIVE ScanCollect(_, _, _, _)
ScanCollect(gen, query, pos, n) ==
    IF n = 0 \/ pos >= Len(gen) THEN <<>>
    ELSE <<EsSource(gen[pos + 1], query)>>
            \o ScanCollect(gen, query, pos + 1, n - 1)

\* The scan loop keeping the items of the rounds i > offset
ScanLoop_OffByOne(gen, query, offset, limit) ==
    IF limit = 0 \/ Len(gen) < offset + 1 THEN <<>>
    ELSE ScanCollect(gen, query, offset + 1, limit - 1)

\* query(): the scan loop `for i in range(offset + limit)`.  The rounds
\* i < offset call next(gen) and drop the item; a generator that ends
\* during them ends the loop with nothing collected.  The rounds
\* i >= offset append next(gen).
ScanLoop(gen, query, offset, limit) ==
    IF Len(gen) < offset THEN <<>>
    ELSE ScanCollect(gen, query, offset, limit)

\* ElasticsearchProvider.query: what the call returns or raises
EsQuery(c) ==
    LET limit == IF c.resulttype = "hits" THEN 0 ELSE c.limit
    IN IF c.datetime_ # <<>> /\ time_field = None
       THEN [error |-> "ProviderQueryError"]
       ELSE
       LET query == EsCompile(c)
       IN IF EsBadRequest(query)
          THEN [error |-> "ProviderQueryError"]
          ELSE
          LET deep == c.offset + limit > ScrollThreshold
              es_results == EsSearch(store, query, c.offset, limit)
              hits == IF deep
                      THEN ScanLoop(EsScan(store, query), query,
                                    c.offset, limit)
                      ELSE es_results.hits
              matched == IF deep THEN Len(hits) + c.offset
                         ELSE es_results.total
              returned == Len(hits)
              feature_collection ==
                  [type          |-> "FeatureCollection",
                   features      |-> <<>>,
                   numberMatched |-> matched]
          IN IF c.resulttype = "hits"
             THEN feature_collection
             ELSE Put(Put(feature_collection, "numberReturned", returned),
                      "features",
                      [i \in 1..Len(hits) |->
                          esdoc2geojson(hits[i], c.select_properties)])

-----------------------------------------------------------------------------
(* SQL providers: compiling the query (sql.py) *)

\* provider_def['id_field'] and provider_def['geom_field'] as configured
SqlIdField == "id"

SqlGeom == "geometry"

\* The catalog GenericSQLProvider.get_fields builds from the table's
\* columns: every column but the geometry column.
SqlCatalog ==
    [id       |-> [type |-> "integer", format |-> None],
     name     |-> [type |-> "string",  format |-> None],
     pop      |-> [type |-> "integer", format |-> None],
     datetime |-> [type |-> "string",  format |-> "date-time"]]

SqlColumns == DOMAIN SqlCatalog \cup {SqlGeom}

SqlTrue == [kind |-> "true"]

\* GenericSQLProvider._get_property_filters
get_property_filters(props) ==
    IF props = <<>> THEN SqlTrue
    ELSE [kind |-> "and",
          filter_group |-> [i \in 1..Len(props) |->
                              [column |-> props[i][1], value |-> props[i][2]]]]

\* GenericSQLProvider._get_cql_filters
get_cql_filters(filterq) ==
    IF filterq = None THEN SqlTrue
    ELSE [kind |-> "cql", expr |-> filterq]

\* PostgreSQLProvider._get_bbox_filter: ST_Intersects(ST_MakeEnvelope(..))
PostgreSQL_get_bbox_filter(bbox) ==
    IF bbox = <<>> THEN SqlTrue
    ELSE [kind     |-> "ST_Intersects",
          envelope |-> <<bbox[1], bbox[2], bbox[3], bbox[4]>>]

\* MySQLProvider._get_bbox_filter: MBRContains(ST_GeomFromText(POLYGON))
MySQL_get_bbox_filter(bbox) ==
    IF bbox = <<>> THEN SqlTrue
    ELSE LET minx == bbox[1]
             miny == bbox[2]
             maxx == bbox[3]
             maxy == bbox[4]
         IN [kind    |-> "MBRContains",
             polygon |-> << <<minx, miny>>, <<maxx, miny>>, <<maxx, maxy>>,
                            <<minx, maxy>>, <<minx, miny>> >>]

get_bbox_filter(bbox) ==
    IF driver = "mysql" THEN MySQL_get_bbox_filter(bbox)
    ELSE PostgreSQL_get_bbox_filter(bbox)

\* GenericSQLProvider._get_datetime_filter; the result is the filter, or
\* the exception raised.  datetime_ arrives split at the '/' (see
\* EsDatetimeFilter), so '../..' is <<"..", "..">>.
get_datetime_filter(datetime_) ==
    IF datetime_ = <<>> \/ datetime_ = <<"..", "..">> THEN SqlTrue
    ELSE IF time_field = None THEN [error |-> "ProviderQueryError"]
    ELSE IF Len(datetime_) = 2
    THEN LET time_begin == datetime_[1]
             time_end   == datetime_[2]
         IN IF time_begin = ".."
            THEN [kind |-> "le", column |-> time_field, value |-> time_end]
            ELSE IF time_end = ".."
            THEN [kind |-> "ge", column |-> time_field, value |-> time_begin]
            ELSE [kind |-> "between", column |-> time_field,
                  low |-> time_begin, high |-> time_end]
    ELSE [kind |-> "eq", column |-> time_field, value |-> datetime_[1]]

\* _get_order_by_clauses without the primary-key fallback
get_order_by_clauses_NoFallback(sort_by) ==
    [i \in 1..Len(sort_by) |->
        [order_function |-> IF sort_by[i].order = "+" THEN "asc" ELSE "desc",
         column |-> sort_by[i].property]]

\* GenericSQLProvider._get_order_by_clauses
get_order_by_clauses(sort_by) ==
    LET clauses == [i \in 1..Len(sort_by) |->
                       [order_function |-> IF sort_by[i].order = "+"
                                           THEN "asc" ELSE "desc",
                        column |-> sort_by[i].property]]
    IN IF clauses = <<>>
       THEN <<[order_function |-> "asc", column |-> SqlIdField]>>
       ELSE clauses

\* GenericSQLProvider._select_properties_clause: the columns load_only names
select_properties_clause(selected, skip_geometry) ==
    LET c0 == IF selected # <<>> THEN Range(selected) ELSE DOMAIN fields
        c1 == IF properties # <<>> THEN c0 \cap Range(properties) ELSE c0
        c2 == IF ~skip_geometry THEN c1 \cup {SqlGeom} ELSE c1
    IN c2 \cap SqlColumns              \* non-existent columns are ignored

-----------------------------------------------------------------------------
(* The SQL table: what the database answers *)

\* Columns compare by their values; text and timestamps by their order.
SqlKey(row, column) ==
    CASE column = "name"     -> NameRank(row.name)
      [] column = "datetime" -> TimeRank(row.datetime)
      [] OTHER               -> row[column]

PolygonMBR(polygon) ==
    LET xs == {polygon[i][1] : i \in DOMAIN polygon}
        ys == {polygon[i][2] : i \in DOMAIN polygon}
        lo(S) == CHOOSE v \in S : \A w \in S : v <= w
        hi(S) == CHOOSE v \in S : \A w \in S : v >= w
    IN <<lo(xs), lo(ys), hi(xs), hi(ys)>>

\* One WHERE condition against one row; a NULL geometry satisfies no
\* spatial condition.
SqlFilterHolds(f, row) ==
    CASE f.kind = "true" -> TRUE
      [] f.kind = "and" ->
            \A i \in DOMAIN f.filter_group :
                row[f.filter_group[i].column] = f.filter_group[i].value
      [] f.kind = "cql" -> CqlHolds(f.expr, row)
      [] f.kind = "ST_Intersects" ->
            row[SqlGeom] # <<>> /\ RectIntersects(f.envelope, row[SqlGeom])
      [] f.kind = "MBRContains" ->
            row[SqlGeom] # <<>>
               /\ RectContains(PolygonMBR(f.polygon), row[SqlGeom])
      [] f.kind = "le" -> TimeRank(row[f.column]) <= TimeRank(f.value)
      [] f.kind = "ge" -> TimeRank(row[f.column]) >= TimeRank(f.value)
      [] f.kind = "between" ->
            /\ TimeRank(row[f.column]) >= TimeRank(f.low)
            /\ TimeRank(row[f.column]) <= TimeRank(f.high)
      [] f.kind = "eq" -> row[f.column] = f.value

\* row a sorts strictly before row b under the ORDER BY clauses
RECURSIVE SqlBefore(_, _, _)
SqlBefore(a, b, clauses) ==
    IF clauses = <<>> THEN FALSE
    ELSE LET cl == Head(clauses)
             ka == SqlKey(a, cl.column)
             kb == SqlKey(b, cl.column)
         IN IF ka = kb THEN SqlBefore(a, b, Tail(clauses))
            ELSE IF cl.order_function = "asc" THEN ka < kb ELSE ka > kb

SqlRow(id) == CHOOSE r \in Range(store) : r.id = id

\* Every order (as a sequence of primary keys) in which the database may
\* hand out the rows satisfying the filters: any order that respects the
\* ORDER BY clauses; rows the clauses do not separate come in any order.
SqlResultOrders(filters, clauses) ==
    LET ids == {r.id : r \in {x \in Range(store) :
                   \A i \in DOMAIN filters : SqlFilterHolds(filters[i], x)}}
    IN {p \in Perms(ids) :
           \A i, j \in DOMAIN p :
               i < j => ~SqlBefore(SqlRow(p[j]), SqlRow(p[i]), clauses)}

-----------------------------------------------------------------------------
(* SQL providers: query and result normalisation *)

\* GenericSQLProvider._sqlalchemy_to_feature on a row of which the columns
\* `loaded` were fetched (item.__dict__ holds just these).
sqlalchemy_to_feature(row, loaded) ==
    LET item_dict == [k \in loaded |-> row[k]]
        props0 == Drop(item_dict, SqlIdField)
        has_geom == SqlGeom \in DOMAIN props0 /\ props0[SqlGeom] # <<>>
    IN [type       |-> "Feature",
        properties |-> IF has_geom THEN Drop(props0, SqlGeom) ELSE props0,
        id         |-> item_dict[SqlIdField],
        geometry   |-> IF has_geom THEN props0[SqlGeom] ELSE <<>>]

\* The conditions of the session query, in the order they are applied
SqlFilters(c) ==
    << get_property_filters(c.properties), get_cql_filters(c.filterq),
       get_bbox_filter(c.bbox), get_datetime_filter(c.datetime_) >>

\* query() without the early return for resulttype 'hits'
SqlQuery_NoHitsReturn(c, order) ==
    LET loaded == select_properties_clause(c.select_properties,
                                           c.skip_geometry)
                     \cup {SqlIdField}
        items == SubSeq(order, c.offset + 1,
                        Min(c.offset + c.limit, Len(order)))
    IN [type           |-> "FeatureCollection",
        features       |-> [i \in 1..Len(items) |->
                               sqlalchemy_to_feature(SqlRow(items[i]), loaded)],
        numberMatched  |-> Len(order),
        numberReturned |-> Len(items)]

\* query() counting the rows of the page instead of the filtered rows
SqlQuery_CountPage(c, order) ==
    LET loaded == select_properties_clause(c.select_properties,
                                           c.skip_geometry)
                     \cup {SqlIdField}
        items == SubSeq(order, c.offset + 1,
                        Min(c.offset + c.limit, Len(order)))
        response0 == [type           |-> "FeatureCollection",
                      features       |-> <<>>,
                      numberMatched  |-> Len(items),
                      numberReturned |-> 0]
    IN IF c.resulttype = "hits"
       THEN response0
       ELSE [response0 EXCEPT
                !.numberReturned = Len(items),
                !.features = [i \in 1..Len(items) |->
                                 sqlalchemy_to_feature(SqlRow(items[i]),
                                                       loaded)]]

\* GenericSQLProvider.query once the filters are built; `order` is the
\* order in which the database hands out the matching rows.
SqlQuery(c, order) ==
    LET loaded == select_properties_clause(c.select_properties,
                                           c.skip_geometry)
                     \cup {SqlIdField}
        matched == Len(order)
        response0 == [type           |-> "FeatureCollection",
                      features       |-> <<>>,
                      numberMatched  |-> matched,
                      numberReturned |-> 0]
        items == SubSeq(order, c.offset + 1,
                        Min(c.offset + c.limit, Len(order)))
    IN IF c.resulttype = "hits"
       THEN response0
       ELSE [response0 EXCEPT
                !.numberReturned = Len(items),
                !.features = [i \in 1..Len(items) |->
                                 sqlalchemy_to_feature(SqlRow(items[i]),
                                                       loaded)]]

-----------------------------------------------------------------------------
(* The calls a client makes *)

Drivers == {"elasticsearch", "postgresql", "mysql"}

Offsets == {0, 1, ScrollThreshold - 1, ScrollThreshold + 1}

Limits == 0..MaxLimit

ResultTypes == {"results", "hits"}

BBoxes == {<<>>, <<1, 1, 3, 3>>}

TimeBounds == {"..", "2002", "2003"}

Datetimes ==
    {<<>>, <<"2002">>} \cup {<<b, e>> : b \in TimeBounds, e \in TimeBounds}

PropValues == {"a", "a b", "a|b"}

SeqsUpTo(S, n) == UNION {[1..k -> S] : k \in 0..n}

PropertyFilters == SeqsUpTo({<<"name", v>> : v \in PropValues}, MaxProps)

SortEntries == [property : {"pop", "name"}, order : {"+", "-", ""}]

SortBys ==
    {<<>>} \cup {<<e>> : e \in SortEntries}
        \cup {<<e1, e2>> : e1 \in {e \in SortEntries : e.property = "pop"},
                           e2 \in {e \in SortEntries : e.property = "name"}}

Selections == {<<>>, <<"name">>, <<"pop", "name">>}

AllowLists == {<<>>, <<"name">>}

Default ==
    [offset |-> 0, limit |-> MaxLimit, resulttype |-> "results",
     bbox |-> <<>>, datetime_ |-> <<>>, properties |-> <<>>,
     sortby |-> <<>>, select_properties |-> <<>>, skip_geometry |-> FALSE,
     q |-> None, filterq |-> None]

Paged == {[Default EXCEPT !.offset = o, !.limit = l, !.resulttype = rt] :
             o \in Offsets, l \in Limits, rt \in ResultTypes}

\* The query contracts a client sends: every pagination with every
\* spatial and temporal filter, with every list of property filters, with
\* every sort, and with every projection.
Contracts ==
    UNION {
        {[p EXCEPT !.bbox = b, !.datetime_ = dt] :
            b \in BBoxes, dt \in Datetimes}
        \cup {[p EXCEPT !.properties = pf] : pf \in PropertyFilters}
        \cup {[p EXCEPT !.sortby = sb] : sb \in SortBys}
        \cup {[p EXCEPT !.select_properties = sel, !.skip_geometry = sk,
                        !.q = q, !.filterq = fq] :
                 sel \in Selections, sk \in BOOLEAN,
                 q \in {None, "a"}, fq \in {None, "pop = 0"}}
        : p \in Paged}

NoCall == [op |-> "none"]

-----------------------------------------------------------------------------
(* State machine *)

\* The caller threads of the concurrent runs
Threads == {1, 2}

NoThreads == [t \in Threads |-> [pc |-> "idle"]]

\* provider_def['table'], the name get_table_model is called with
SqlTable == "features"

\* A store service that is up, of a supported version, holding the index
\* or table with every property mapped.
Healthy ==
    [reachable |-> TRUE, version |-> "8.11.0", exists |-> TRUE,
     mapped |-> PropNames]

\* No concurrent call, no open session, a healthy store and a provider
\* whose construction against it succeeded.
Quiet ==
    /\ threads = NoThreads
    /\ sessions = {}
    /\ requests = <<>>
    /\ backend = Healthy
    /\ status = "ready"
    /\ table_models = IF driver = "elasticsearch" THEN EmptyDict
                      ELSE [t \in {SqlTable} |-> SqlColumns]

\* The provider after construction (__init__ has run get_fields) on an
\* empty store or one loaded with the first n records.
Init ==
    /\ driver \in Drivers
    /\ time_field \in {None, "datetime"}
    /\ properties \in AllowLists
    /\ fields = IF driver = "elasticsearch" THEN EsCatalog ELSE SqlCatalog
    /\ \E n \in {0, NumDocs - 1, NumDocs} : store = LoadedStore(n)
    /\ select_properties = <<>>
    /\ pc = "idle"
    /\ call = NoCall
    /\ response = NoCall
    /\ Quiet

\* ElasticsearchProvider.query
EsQueryCall(c) ==
    /\ pc = "idle"
    /\ driver = "elasticsearch"
    /\ select_properties' = c.select_properties
    /\ response' = EsQuery(c)
    /\ call' = [op |-> "query", args |-> c]
    /\ pc' = "done"
    /\ UNCHANGED <<driver, time_field, properties, fields, store>>
    /\ UNCHANGED others

\* GenericSQLProvider.query
SqlQueryCall(c) ==
    /\ pc = "idle"
    /\ driver # "elasticsearch"
    /\ LET filters == SqlFilters(c)
       IN IF "error" \in DOMAIN filters[4]
          THEN response' = filters[4]
          ELSE \E order \in SqlResultOrders(filters,
                                get_order_by_clauses(c.sortby)) :
                   response' = SqlQuery(c, order)
    /\ call' = [op |-> "query", args |-> c]
    /\ pc' = "done"
    /\ UNCHANGED <<driver, time_field, properties, fields, store,
                   select_properties>>
    /\ UNCHANGED others

\* The caller takes the result; the provider is ready for the next call.
Return ==
    /\ pc = "done"
    /\ pc' = "idle"
    /\ call' = NoCall
    /\ response' = NoCall
    /\ UNCHANGED <<driver, time_field, properties, fields, store,
                   select_properties>>
    /\ UNCHANGED others

Next ==
    \/ \E c \in Contracts : EsQueryCall(c)
    \/ \E c \in Contracts : SqlQueryCall(c)
    \/ Return

Spec == Init /\ [][Next]_vars

-----------------------------------------------------------------------------
(* Deep pagination: an index holding more documents than the scroll        *)
(* threshold, queried around the threshold.                                *)

DeepOffsets == (ScrollThreshold - 2)..(ScrollThreshold + 1)

DeepContracts ==
    {[Default EXCEPT !.offset = o, !.limit = l, !.resulttype = rt,
                     !.sortby = sb, !.datetime_ = dt] :
        o \in DeepOffsets, l \in Limits, rt \in ResultTypes,
        sb \in {<<>>, <<[property |-> "pop", order |-> "-"]>>,
                <<[property |-> "name", order |-> "+"]>>},
        dt \in {<<>>, <<"2001", "..">>}}

InitDeep ==
    /\ driver = "elasticsearch"
    /\ time_field = "datetime"
    /\ properties = <<>>
    /\ fields = EsCatalog
    /\ store = LoadedStore(DeepDocs)
    /\ select_properties = <<>>
    /\ pc = "idle"
    /\ call = NoCall
    /\ response = NoCall
    /\ Quiet

NextDeep ==
    \/ \E c \in DeepContracts : EsQueryCall(c)
    \/ Return

SpecDeep == InitDeep /\ [][NextDeep]_vars

-----------------------------------------------------------------------------
(* Single items on the Elasticsearch provider: get, create, update, delete *)

\* The identifiers callers use and stores assign
Ids == 1..MaxId

\* The document es.index files for a body: the members of the GeoJSON
\* item, kept under the native id it was indexed with.
EsDocument(id, body) ==
    LET d == [_id      |-> id,
              geometry |-> body.geometry,
              name     |-> body.properties.name,
              pop      |-> body.properties.pop,
              datetime |-> body.properties.datetime]
    IN IF "id" \in DOMAIN body THEN Put(d, "id", body.id) ELSE d

\* A store keeps its records in the order of their native ids; a record
\* written under an id takes the place of the record that had it.
Upsert(docs, r) ==
    SelectSeq(docs, LAMBDA d : DocId(d) < DocId(r)) \o <<r>>
        \o SelectSeq(docs, LAMBDA d : DocId(d) > DocId(r))

\* es.index(id=identifier, body=json_data): insert or replace
EsIndex(docs, id, body) == Upsert(docs, EsDocument(id, body))

\* The documents with a native id: what es.get finds, and what the
\* match_phrase query on _id of the fallback search matches.
EsById(docs, id) == SelectSeq(docs, LAMBDA d : DocId(d) = id)

\* es.get and the hits of the fallback search return the whole _source.
EsWholeSource(d) == EsSource(d, [track_total_hits |-> TRUE])

\* get() answering None when both lookups miss
EsGet_NoneOnMiss(identifier, selected) ==
    LET found == EsById(store, identifier)
    IN IF found # <<>>
       THEN [requests |-> <<"get">>,
             response |-> esdoc2geojson(EsWholeSource(found[1]), selected)]
       ELSE [requests |-> <<"get", "search">>,
             response |-> [result |-> None]]

\* ElasticsearchProvider.get: the requests sent and what is returned or
\* raised.  `selected` is what self.select_properties holds.  An exception
\* raised inside the first handler is not caught by the second one.
EsGet(identifier, selected) ==
    LET found == EsById(store, identifier)
    IN IF found # <<>>
       THEN [requests |-> <<"get">>,
             response |-> esdoc2geojson(EsWholeSource(found[1]), selected)]
       ELSE LET hits == EsById(store, identifier)
            IN [requests |-> <<"get", "search">>,
                response |->
                    IF Len(hits) = 0
                    THEN [error |-> "ProviderItemNotFoundError"]
                    ELSE esdoc2geojson(EsWholeSource(hits[1]), selected)]

-----------------------------------------------------------------------------
(* Single items on the SQL providers: get and the model instance *)

\* get() taking the first row below in ascending order as prev
SqlGet_PrevFromBottom(identifier) ==
    LET rows == SelectSeq(store, LAMBDA r : r.id = identifier)
    IN IF rows = <<>> THEN [error |-> "ProviderItemNotFoundError"]
       ELSE
       LET feature == sqlalchemy_to_feature(rows[1], SqlColumns)
           props == IF properties # <<>>
                    THEN [k \in DOMAIN feature.properties
                                  \cap Range(properties) |->
                              feature.properties[k]]
                    ELSE feature.properties
           below == {r.id : r \in {x \in Range(store) : x.id < identifier}}
           above == {r.id : r \in {x \in Range(store) : x.id > identifier}}
       IN [type       |-> feature.type,
           id         |-> feature.id,
           geometry   |-> feature.geometry,
           properties |-> props,
           prev |-> IF below # {}
                    THEN CHOOSE v \in below : \A w \in below : v <= w
                    ELSE identifier,
           next |-> IF above # {}
                    THEN CHOOSE v \in above : \A w \in above : v <= w
                    ELSE identifier]

\* GenericSQLProvider.get: session.get loads every column of the row; the
\* session is the with-block's and is closed when get returns or raises.
SqlGet(identifier) ==
    LET rows == SelectSeq(store, LAMBDA r : r.id = identifier)
    IN IF rows = <<>> THEN [error |-> "ProviderItemNotFoundError"]
       ELSE
       LET feature == sqlalchemy_to_feature(rows[1], SqlColumns)
           props == IF properties # <<>>
                    THEN [k \in DOMAIN feature.properties
                                  \cap Range(properties) |->
                              feature.properties[k]]
                    ELSE feature.properties
           below == {r.id : r \in {x \in Range(store) : x.id < identifier}}
           above == {r.id : r \in {x \in Range(store) : x.id > identifier}}
       IN [type       |-> feature.type,
           id         |-> feature.id,
           geometry   |-> feature.geometry,
           properties |-> props,
           \* order_by(id.desc()).filter(id < identifier).first()
           prev |-> IF below # {}
                    THEN CHOOSE v \in below : \A w \in below : v >= w
                    ELSE identifier,
           \* order_by(id.asc()).filter(id > identifier).first()
           next |-> IF above # {}
                    THEN CHOOSE v \in above : \A w \in above : v <= w
                    ELSE identifier]

\* GenericSQLProvider._feature_to_sqlalchemy: the model instance, or the
\* exception when the table model rejects an attribute.
feature_to_sqlalchemy(json_data, identifier) ==
    LET attributes == Drop(json_data.properties, "identifier")
    IN IF ~(DOMAIN attributes \subseteq SqlColumns)
       THEN [error |-> "ProviderInvalidDataError"]
       ELSE [k \in DOMAIN attributes \cup {SqlGeom, SqlIdField} |->
                IF k = SqlIdField THEN identifier
                ELSE IF k = SqlGeom THEN json_data.geometry
                ELSE attributes[k]]

-----------------------------------------------------------------------------
(* BaseProvider._load_and_prepare_item, the helper create and update call *)

\* self.get(identifier) returns a feature
GetFinds(identifier) ==
    IF driver = "elasticsearch"
    THEN "error" \notin DOMAIN EsGet(identifier, select_properties).response
    ELSE "error" \notin DOMAIN SqlGet(identifier)

\* The identifier is the one passed, else the item's id member; without
\* one the item is refused unless a missing identifier is accepted; an
\* item without geometry or properties is refused; so is, on request, an
\* item whose identifier is in use.  The result is the identifier with
\* the loaded item, or the exception.
load_and_prepare_item(item, identifier, accept_missing, raise_if_exists) ==
    LET identifier2 == IF identifier # NoId THEN identifier
                       ELSE IF "id" \in DOMAIN item THEN item.id
                       ELSE NoId
    IN IF identifier2 = NoId /\ ~accept_missing
       THEN [error |-> "ProviderInvalidDataError"]
       ELSE IF "geometry" \notin DOMAIN item
                  \/ "properties" \notin DOMAIN item
       THEN [error |-> "ProviderInvalidDataError"]
       ELSE IF identifier2 # NoId /\ raise_if_exists /\ GetFinds(identifier2)
       THEN [error |-> "ProviderInvalidDataError"]
       ELSE [identifier |-> identifier2, json_data |-> item]

-----------------------------------------------------------------------------
(* Writes: what create, update and delete do to the store *)

\* ElasticsearchProvider.create; uuid is the identifier uuid4 hands out.
EsCreate(item, uuid) ==
    LET prep == load_and_prepare_item(item, NoId, TRUE, TRUE)
    IN IF "error" \in DOMAIN prep
       THEN [response |-> prep, store |-> store]
       ELSE
       LET identifier == IF prep.identifier = NoId THEN uuid
                         ELSE prep.identifier
           json_data == IF prep.identifier = NoId
                        THEN Put(prep.json_data, "id", identifier)
                        ELSE prep.json_data
       IN [response |-> [result |-> identifier],
           store    |-> EsIndex(store, identifier, json_data)]

\* ElasticsearchProvider.update
EsUpdate(identifier, item) ==
    LET prep == load_and_prepare_item(item, identifier, FALSE, FALSE)
    IN IF "error" \in DOMAIN prep
       THEN [response |-> prep, store |-> store]
       ELSE [response |-> [result |-> TRUE],
             store    |-> EsIndex(store, prep.identifier, prep.json_data)]

\* ElasticsearchProvider.delete; es.delete raises NotFoundError for an id
\* the index does not hold.
EsDelete(identifier) ==
    IF EsById(store, identifier) = <<>>
    THEN [response |-> [error |-> "NotFoundError"], store |-> store]
    ELSE [response |-> [result |-> TRUE],
          store    |-> SelectSeq(store, LAMBDA d : DocId(d) # identifier)]

\* GenericSQLProvider.create up to the with-block: the new instance
SqlCreatePrepare(item) ==
    LET prep == load_and_prepare_item(item, NoId, TRUE, TRUE)
    IN IF "error" \in DOMAIN prep THEN prep
       ELSE feature_to_sqlalchemy(prep.json_data, prep.identifier)

\* GenericSQLProvider.update up to the with-block: the helper is called
\* without the identifier argument and its result is bound to
\* `identifier`.
SqlUpdatePrepare(identifier, item) ==
    LET prep == load_and_prepare_item(item, NoId, FALSE, FALSE)
    IN IF "error" \in DOMAIN prep THEN prep
       ELSE feature_to_sqlalchemy(prep.json_data, prep.identifier)

\* delete() reporting success whatever the row count
SqlFlush_DeleteAlwaysTrue(op, instance, identifier, new_id) ==
    IF op = "delete"
    THEN [response |-> [result |-> TRUE],
          store    |-> SelectSeq(store, LAMBDA r : r.id # identifier)]
    ELSE LET row == IF instance[SqlIdField] = NoId
                    THEN Put(instance, SqlIdField, new_id) ELSE instance
         IN [response |-> IF op = "create"
                          THEN [result |-> row[SqlIdField]]
                          ELSE [result |-> TRUE],
             store    |-> Upsert(store, row)]

\* The statements inside the with-block when the database accepts them:
\* session.add (create) or session.merge (update) of the instance, or the
\* DELETE statement, and the commit.  new_id is the key the database
\* assigns to a row added without one.
SqlFlush(op, instance, identifier, new_id) ==
    IF op = "delete"
    THEN LET rowcount == Len(SelectSeq(store, LAMBDA r : r.id = identifier))
         IN [response |-> [result |-> rowcount > 0],
             store    |-> SelectSeq(store, LAMBDA r : r.id # identifier)]
    ELSE LET row == IF instance[SqlIdField] = NoId
                    THEN Put(instance, SqlIdField, new_id) ELSE instance
         IN [response |-> IF op = "create"
                          THEN [result |-> row[SqlIdField]]
                          ELSE [result |-> TRUE],
             store    |-> Upsert(store, row)]

\* Leaving the with-block closing the session only when nothing was raised
session_exit_OnlyOnSuccess(open, session, raised) ==
    IF raised THEN open ELSE open \ {session}

\* Leaving `with Session(self._engine) as session`: Session.__exit__
\* closes the session, also when the block raised.
session_exit(open, session, raised) == open \ {session}

-----------------------------------------------------------------------------
(* The calls on single items *)

\* The items callers send: GeoJSON features with every property of the
\* collection, with or without an id member.
ItemBody ==
    [type       |-> "Feature",
     geometry   |-> <<2, 2, 4, 4>>,
     properties |-> [name |-> "b", pop |-> 1, datetime |-> "2003"]]

ValidItems == {ItemBody} \cup {Put(ItemBody, "id", i) : i \in Ids}

\* An item without properties, and one with a property the table has no
\* column for.
ItemWithoutProperties == Drop(Put(ItemBody, "id", 1), "properties")

ItemWithUnknownColumn ==
    [type       |-> "Feature",
     id         |-> 1,
     geometry   |-> <<2, 2, 4, 4>>,
     properties |-> [name |-> "b", pop |-> 1, datetime |-> "2003",
                     height |-> 1]]

EsItems == ValidItems \cup {ItemWithoutProperties}

SqlItems == EsItems \cup {ItemWithUnknownColumn}

\* update is sent the item under its own id, under the next id, or
\* without an id member.
UpdateItems(identifier, items) ==
    {it \in items : "id" \in DOMAIN it =>
                        it.id \in {identifier, (identifier % MaxId) + 1}}

\* The identifiers no record of the store has
FreeIds == {i \in Ids : \A k \in DOMAIN store : DocId(store[k]) # i}

\* The queries made between the calls on single items
CrudContracts ==
    {[Default EXCEPT !.select_properties = sel] : sel \in {<<>>, <<"pop">>}}

\* ElasticsearchProvider.get
EsGetCall(identifier) ==
    /\ pc = "idle" /\ status = "ready" /\ driver = "elasticsearch"
    /\ LET r == EsGet(identifier, select_properties)
       IN response' = r.response /\ requests' = r.requests
    /\ call' = [op |-> "get", args |-> [identifier |-> identifier]]
    /\ pc' = "done"
    /\ UNCHANGED <<driver, time_field, properties, fields, store,
                 select_properties, threads, sessions, backend, status,
                 table_models>>

\* GenericSQLProvider.get
SqlGetCall(identifier) ==
    /\ pc = "idle" /\ status = "ready" /\ driver # "elasticsearch"
    /\ response' = SqlGet(identifier)
    /\ call' = [op |-> "get", args |-> [identifier |-> identifier]]
    /\ pc' = "done"
    /\ UNCHANGED <<driver, time_field, properties, fields, store,
                 select_properties, threads, sessions, requests, backend,
                 status, table_models>>

\* ElasticsearchProvider.create
EsCreateCall(item, uuid) ==
    /\ pc = "idle" /\ status = "ready" /\ driver = "elasticsearch"
    /\ IF "id" \in DOMAIN item THEN uuid = NoId ELSE uuid \in FreeIds
    /\ LET r == EsCreate(item, uuid)
       IN response' = r.response /\ store' = r.store
    /\ call' = [op |-> "create", args |-> [item |-> item]]
    /\ pc' = "done"
    /\ UNCHANGED <<driver, time_field, properties, fields,
                 select_properties, threads, sessions, requests, backend,
                 status, table_models>>

\* ElasticsearchProvider.update
EsUpdateCall(identifier, item) ==
    /\ pc = "idle" /\ status = "ready" /\ driver = "elasticsearch"
    /\ LET r == EsUpdate(identifier, item)
       IN response' = r.response /\ store' = r.store
    /\ call' = [op |-> "update",
                args |-> [identifier |-> identifier, item |-> item]]
    /\ pc' = "done"
    /\ UNCHANGED <<driver, time_field, properties, fields,
                 select_properties, threads, sessions, requests, backend,
                 status, table_models>>

\* ElasticsearchProvider.delete
EsDeleteCall(identifier) ==
    /\ pc = "idle" /\ status = "ready" /\ driver = "elasticsearch"
    /\ LET r == EsDelete(identifier)
       IN response' = r.response /\ store' = r.store
    /\ call' = [op |-> "delete", args |-> [identifier |-> identifier]]
    /\ pc' = "done"
    /\ UNCHANGED <<driver, time_field, properties, fields,
                 select_properties, threads, sessions, requests, backend,
                 status, table_models>>

\* create, update and delete of GenericSQLProvider up to the with-block:
\* the item is loaded and turned into a model instance, which raises for
\* invalid data; then `with Session(self._engine) as session` opens the
\* session of the call.
SqlWriteBegin(op, identifier, item) ==
    /\ pc = "idle" /\ status = "ready" /\ driver # "elasticsearch"
    /\ LET instance == CASE op = "create" -> SqlCreatePrepare(item)
                         [] op = "update" -> SqlUpdatePrepare(identifier, item)
                         [] op = "delete" -> EmptyDict
           args == CASE op = "create" -> [item |-> item]
                     [] op = "update" -> [identifier |-> identifier,
                                          item |-> item]
                     [] op = "delete" -> [identifier |-> identifier]
       IN IF "error" \in DOMAIN instance
          THEN /\ response' = instance
               /\ call' = [op |-> op, args |-> args]
               /\ pc' = "done"
               /\ UNCHANGED sessions
          ELSE /\ response' = NoCall
               /\ call' = [op |-> op, args |-> args, instance |-> instance]
               /\ pc' = "in_session"
               /\ sessions' = sessions \cup {[owner |-> op]}
    /\ UNCHANGED <<driver, time_field, properties, fields, store,
                 select_properties, threads, requests, backend, status,
                 table_models>>

\* The statements inside the with-block: the database takes them (ok) or
\* the flush or the commit raises and nothing is written.
SqlWriteCommit(ok, new_id) ==
    /\ pc = "in_session"
    /\ IF call.op = "create" /\ call.instance[SqlIdField] = NoId
       THEN new_id \in FreeIds ELSE new_id = NoId
    /\ LET identifier == IF call.op = "delete" THEN call.args.identifier
                         ELSE call.instance[SqlIdField]
           taken == call.op = "create" /\ identifier \notin FreeIds \cup {NoId}
           r == SqlFlush(call.op, call.instance, identifier, new_id)
       IN IF ok /\ ~taken
          THEN response' = r.response /\ store' = r.store
          ELSE response' = [error |-> "SQLAlchemyError"] /\ store' = store
    /\ pc' = "exiting"
    /\ UNCHANGED <<driver, time_field, properties, fields,
                 select_properties, call, threads, sessions, requests,
                 backend, status, table_models>>

\* The with-block is left: Session.__exit__
SqlSessionExit ==
    /\ pc = "exiting"
    /\ sessions' = session_exit(sessions, [owner |-> call.op],
                                "error" \in DOMAIN response)
    /\ pc' = "done"
    /\ UNCHANGED <<driver, time_field, properties, fields, store,
                 select_properties, call, response, threads, requests,
                 backend, status, table_models>>

InitCrud ==
    /\ driver \in Drivers
    /\ time_field = "datetime"
    /\ properties \in AllowLists
    /\ fields = IF driver = "elasticsearch" THEN EsCatalog ELSE SqlCatalog
    /\ \E n \in {0, MaxId - 1} : store = LoadedStore(n)
    /\ select_properties = <<>>
    /\ pc = "idle"
    /\ call = NoCall
    /\ response = NoCall
    /\ Quiet

NextCrud ==
    \/ \E c \in CrudContracts : EsQueryCall(c)
    \/ \E i \in Ids : EsGetCall(i)
    \/ \E i \in Ids : SqlGetCall(i)
    \/ \E it \in EsItems, u \in Ids \cup {NoId} : EsCreateCall(it, u)
    \/ \E i \in Ids : \E it \in UpdateItems(i, EsItems) : EsUpdateCall(i, it)
    \/ \E i \in Ids : EsDeleteCall(i)
    \/ \E it \in SqlItems : SqlWriteBegin("create", NoId, it)
    \/ \E i \in Ids : \E it \in UpdateItems(i, SqlItems) :
           SqlWriteBegin("update", i, it)
    \/ \E i \in Ids : SqlWriteBegin("delete", i, ItemBody)
    \/ \E ok \in BOOLEAN, u \in Ids \cup {NoId} : SqlWriteCommit(ok, u)
    \/ SqlSessionExit
    \/ Return

SpecCrud == InitCrud /\ [][NextCrud]_vars

-----------------------------------------------------------------------------
(* Construction and the field catalog.  The API builds a provider for a    *)
(* collection whenever it needs one, so __init__ runs many times in one    *)
(* process while the store service changes underneath.                     *)

\* info()['version']['number'] of the clusters a provider may meet
Versions == {"7.17.3", "8.11.0", "10.2.1"}

\* float(number[:3]), in tenths
VersionTenths(number) ==
    CASE number = "7.17.3" -> 71       \* float('7.1')
      [] number = "8.11.0" -> 81       \* float('8.1')
      [] number = "10.2.1" -> 100      \* float('10.')

\* The states of the store service: up or down, its version, whether the
\* index or table exists, and the properties its mapping or columns hold.
Backends ==
    [reachable : BOOLEAN, version : Versions, exists : BOOLEAN,
     mapped : {{}, {"name"}, PropNames}]

\* ElasticsearchProvider.get_nested_fields on the mapping of the index
get_nested_fields(mapped) == [p \in mapped |-> EsCatalog[p]]

\* ElasticsearchProvider.get_fields on a provider whose self._fields is
\* `cache`: the requests sent, the new self._fields and what is returned
\* or raised.  An empty dict is falsy.
EsGetFields(cache) ==
    IF cache = EmptyDict
    THEN IF ~backend.reachable
         THEN [requests |-> <<"indices.get">>, fields |-> cache,
               response |-> [error |-> "ConnectionError"]]
         ELSE IF ~backend.exists
         THEN [requests |-> <<"indices.get">>, fields |-> cache,
               response |-> [error |-> "NotFoundError"]]
         ELSE LET found == get_nested_fields(backend.mapped)
              IN [requests |-> <<"indices.get">>, fields |-> found,
                  response |-> [result |-> found]]
    ELSE [requests |-> <<>>, fields |-> cache,
          response |-> [result |-> cache]]

\* ElasticsearchProvider.__init__: ping, version check, get_fields
EsInit ==
    IF ~backend.reachable
    THEN [requests |-> <<"ping">>, fields |-> EmptyDict,
          response |-> [error |-> "ProviderConnectionError"]]
    ELSE IF VersionTenths(backend.version) < 80
    THEN [requests |-> <<"ping", "info">>, fields |-> EmptyDict,
          response |-> [error |-> "ProviderConnectionError"]]
    ELSE LET gf == EsGetFields(EmptyDict)
         IN [requests |-> <<"ping", "info">> \o gf.requests,
             fields   |-> gf.fields,
             response |-> IF "error" \in DOMAIN gf.response
                          THEN [error |-> "ProviderQueryError"]
                          ELSE [result |-> "provider"]]

\* get_table_model under functools.cache: the arguments of a call that
\* returned are answered from the cache, those of a call that raised are
\* not.  The result is the table model (its columns) or the exception.
get_table_model(cache) ==
    IF SqlTable \in DOMAIN cache
    THEN [requests |-> <<>>, cache |-> cache,
          response |-> [result |-> cache[SqlTable]]]
    ELSE IF ~backend.reachable
    THEN [requests |-> <<"reflect">>, cache |-> cache,
          response |-> [error |-> "ProviderConnectionError"]]
    ELSE IF ~backend.exists
    THEN [requests |-> <<"reflect">>, cache |-> cache,
          response |-> [error |-> "ProviderQueryError"]]
    ELSE LET model == backend.mapped \cup {SqlIdField, SqlGeom}
         IN [requests |-> <<"reflect">>,
             cache    |-> Put(cache, SqlTable, model),
             response |-> [result |-> model]]

\* GenericSQLProvider.get_fields on a provider whose self._fields is
\* `cache`: the columns of the table model but the geometry column.
SqlGetFields(cache, table_model) ==
    IF cache = EmptyDict
    THEN [c \in table_model \ {SqlGeom} |-> SqlCatalog[c]]
    ELSE cache

\* GenericSQLProvider.__init__: the engine is created without connecting;
\* get_table_model, get_fields
SqlInit ==
    LET tm == get_table_model(table_models)
    IN IF "error" \in DOMAIN tm.response
       THEN [requests |-> tm.requests, cache |-> tm.cache,
             fields |-> EmptyDict, response |-> tm.response]
       ELSE [requests |-> tm.requests, cache |-> tm.cache,
             fields   |-> SqlGetFields(EmptyDict, tm.response.result),
             response |-> [result |-> "provider"]]

\* A provider is constructed; it replaces the one there was.
ConstructCall ==
    /\ pc = "idle"
    /\ IF driver = "elasticsearch"
       THEN LET r == EsInit
            IN /\ requests' = r.requests /\ fields' = r.fields
               /\ response' = r.response
               /\ UNCHANGED table_models
       ELSE LET r == SqlInit
            IN /\ requests' = r.requests /\ fields' = r.fields
               /\ response' = r.response
               /\ table_models' = r.cache
    /\ status' = IF "error" \in DOMAIN response' THEN "failed" ELSE "ready"
    /\ select_properties' = <<>>
    /\ call' = [op |-> "construct"]
    /\ pc' = "done"
    /\ UNCHANGED <<driver, time_field, properties, store, threads,
                 sessions, backend>>

\* get_fields() on the provider
GetFieldsCall ==
    /\ pc = "idle" /\ status = "ready"
    /\ IF driver = "elasticsearch"
       THEN LET r == EsGetFields(fields)
            IN /\ requests' = r.requests /\ fields' = r.fields
               /\ response' = r.response
       ELSE /\ requests' = <<>>
            /\ fields' = SqlGetFields(fields, table_models[SqlTable])
            /\ response' = [result |-> fields']
    /\ call' = [op |-> "get_fields"]
    /\ pc' = "done"
    /\ UNCHANGED <<driver, time_field, properties, store,
                 select_properties, threads, sessions, backend, status,
                 table_models>>

\* query() on the provider: against a store that is up and holds the
\* collection it is the query of the contract; otherwise the store
\* client raises.
ServeCall(c) ==
    /\ status = "ready"
    /\ IF backend.reachable /\ backend.exists
       THEN EsQueryCall(c) \/ SqlQueryCall(c)
       ELSE /\ pc = "idle"
            /\ response' = [error |-> IF driver = "elasticsearch"
                                      THEN IF backend.reachable
                                           THEN "ProviderQueryError"
                                           ELSE "ProviderConnectionError"
                                      ELSE "SQLAlchemyError"]
            /\ call' = [op |-> "query", args |-> c]
            /\ pc' = "done"
            /\ UNCHANGED <<driver, time_field, properties, fields, store,
                           select_properties>>
            /\ UNCHANGED others

\* The store service goes down or comes up, is upgraded, loses or gains
\* the collection or a mapped property.
BackendChange(b) ==
    /\ pc = "idle"
    /\ backend' = b
    /\ UNCHANGED <<driver, time_field, properties, fields, store,
                 select_properties, pc, call, response, threads, sessions,
                 requests, status, table_models>>

InitLife ==
    /\ driver \in Drivers
    /\ time_field = "datetime"
    /\ properties = <<>>
    /\ fields = EmptyDict
    /\ store = LoadedStore(NumDocs)
    /\ select_properties = <<>>
    /\ pc = "idle"
    /\ call = NoCall
    /\ response = NoCall
    /\ threads = NoThreads
    /\ sessions = {}
    /\ requests = <<>>
    /\ backend \in Backends
    /\ status = "none"
    /\ table_models = EmptyDict

NextLife ==
    \/ ConstructCall
    \/ GetFieldsCall
    \/ ServeCall(Default)
    \/ \E b \in Backends : BackendChange(b)
    \/ Return

SpecLife == InitLife /\ [][NextLife]_vars

-----------------------------------------------------------------------------
(* Concurrent queries on one Elasticsearch provider instance.  A caller    *)
(* thread runs query() in three steps: the assignment to                   *)
(* self.select_properties, the compilation with the search, and the        *)
(* serialisation of the hits.  Other threads run between the steps.        *)

ConcContracts ==
    {[Default EXCEPT !.select_properties = sel, !.skip_geometry = sk] :
        sel \in Selections, sk \in BOOLEAN}

\* query() from the compilation to the search.  After its first statement
\* query() never reads its select_properties argument again: line 350 and
\* get_properties read self.select_properties, which holds `selected` now.
EsQuerySearch(c, selected) ==
    LET limit == IF c.resulttype = "hits" THEN 0 ELSE c.limit
    IN IF c.datetime_ # <<>> /\ time_field = None
       THEN [error |-> "ProviderQueryError"]
       ELSE
       LET query == EsCompile([c EXCEPT !.select_properties = selected])
       IN IF EsBadRequest(query)
          THEN [error |-> "ProviderQueryError"]
          ELSE
          LET deep == c.offset + limit > ScrollThreshold
              es_results == EsSearch(store, query, c.offset, limit)
              hits == IF deep
                      THEN ScanLoop(EsScan(store, query), query,
                                    c.offset, limit)
                      ELSE es_results.hits
          IN [hits    |-> hits,
              matched |-> IF deep THEN Len(hits) + c.offset
                          ELSE es_results.total]

\* query() from the search on; esdoc2geojson reads self.select_properties,
\* which holds `selected` now.
EsQuerySerialize(c, results, selected) ==
    LET feature_collection ==
            [type          |-> "FeatureCollection",
             features      |-> <<>>,
             numberMatched |-> results.matched]
    IN IF c.resulttype = "hits"
       THEN feature_collection
       ELSE Put(Put(feature_collection, "numberReturned", Len(results.hits)),
                "features",
                [i \in 1..Len(results.hits) |->
                    esdoc2geojson(results.hits[i], selected)])

\* A thread enters query(): self.select_properties = select_properties
ThreadBegin(t, c) ==
    /\ threads[t].pc = "idle"
    /\ select_properties' = c.select_properties
    /\ threads' = [threads EXCEPT ![t] = [pc |-> "assigned", args |-> c]]
    /\ UNCHANGED <<driver, time_field, properties, fields, store, pc, call,
                   response, sessions, requests, backend, status,
                   table_models>>

\* The thread compiles its query and searches the index.
ThreadSearch(t) ==
    /\ threads[t].pc = "assigned"
    /\ LET c == threads[t].args
           results == EsQuerySearch(c, select_properties)
       IN threads' = [threads EXCEPT ![t] =
              IF "error" \in DOMAIN results
              THEN [pc |-> "done", args |-> c, response |-> results]
              ELSE [pc |-> "searched", args |-> c, results |-> results]]
    /\ UNCHANGED <<driver, time_field, properties, fields, store,
                   select_properties, pc, call, response, sessions, requests,
                   backend, status, table_models>>

\* The thread serialises its hits and returns the feature collection.
ThreadSerialize(t) ==
    /\ threads[t].pc = "searched"
    /\ LET c == threads[t].args
       IN threads' = [threads EXCEPT ![t] =
              [pc |-> "done", args |-> c,
               response |-> EsQuerySerialize(c, threads[t].results,
                                             select_properties)]]
    /\ UNCHANGED <<driver, time_field, properties, fields, store,
                   select_properties, pc, call, response, sessions, requests,
                   backend, status, table_models>>

\* The caller thread takes its result.
ThreadReturn(t) ==
    /\ threads[t].pc = "done"
    /\ threads' = [threads EXCEPT ![t] = [pc |-> "idle"]]
    /\ UNCHANGED <<driver, time_field, properties, fields, store,
                   select_properties, pc, call, response, sessions, requests,
                   backend, status, table_models>>

InitConc ==
    /\ driver = "elasticsearch"
    /\ time_field = "datetime"
    /\ properties \in AllowLists
    /\ fields = EsCatalog
    /\ store = LoadedStore(NumDocs)
    /\ select_properties = <<>>
    /\ pc = "idle"
    /\ call = NoCall
    /\ response = NoCall
    /\ Quiet

NextConc ==
    \/ \E t \in Threads, c \in ConcContracts : ThreadBegin(t, c)
    \/ \E t \in Threads : ThreadSearch(t)
    \/ \E t \in Threads : ThreadSerialize(t)
    \/ \E t \in Threads : ThreadReturn(t)

SpecConc == InitConc /\ [][NextConc]_vars

-----------------------------------------------------------------------------
(* The catalogue provider: ElasticsearchCatalogueProvider *)

EsClasses == {"elasticsearch", "elasticsearch_catalogue"}

\* ElasticsearchCatalogueProvider._excludes, as catalog keys
CatalogueExcludes == {"properties._metadata-anytext"}

\* ElasticsearchCatalogueProvider.get_fields
EsCatalogueGetFields(base) ==
    Put([k \in DOMAIN base \ CatalogueExcludes |-> base[k]],
        "q", [type |-> "string"])

\* ElasticsearchCatalogueProvider.query: every argument but filterq is
\* handed to ElasticsearchProvider.query, whose filterq stays None.
EsCatalogueQuery(c) == EsQuery([c EXCEPT !.filterq = None])

\* The query contracts with and without a CQL filter.
CqlContracts ==
    {[Default EXCEPT !.offset = o, !.limit = l, !.resulttype = rt,
                     !.bbox = b, !.filterq = fq] :
        o \in {0, 1, ScrollThreshold + 1}, l \in Limits, rt \in ResultTypes,
        b \in BBoxes, fq \in {None, "pop = 0", "name = 'a'"}}

EsCatalogueQueryCall(c) ==
    /\ pc = "idle"
    /\ driver = "elasticsearch_catalogue"
    /\ select_properties' = c.select_properties
    /\ response' = EsCatalogueQuery(c)
    /\ call' = [op |-> "query", args |-> c]
    /\ pc' = "done"
    /\ UNCHANGED <<driver, time_field, properties, fields, store>>
    /\ UNCHANGED others

\* A catalogue provider after construction.
InitCat ==
    /\ driver = "elasticsearch_catalogue"
    /\ time_field = "datetime"
    /\ properties \in AllowLists
    /\ fields = EsCatalogueGetFields(EsCatalog)
    /\ \E n \in {0, NumDocs - 1, NumDocs} : store = LoadedStore(n)
    /\ select_properties = <<>>
    /\ pc = "idle"
    /\ call = NoCall
    /\ response = NoCall
    /\ threads = NoThreads
    /\ sessions = {}
    /\ requests = <<>>
    /\ backend = Healthy
    /\ status = "ready"
    /\ table_models = EmptyDict

NextCat ==
    \/ \E c \in CqlContracts : EsCatalogueQueryCall(c)
    \/ Return

SpecCat == InitCat /\ [][NextCat]_vars

-----------------------------------------------------------------------------
(* Properties of query *)

\* A query call has returned / has returned a feature collection.
Queried == pc = "done" /\ call.op = "query"

ReturnedCollection == Queried /\ "features" \in DOMAIN response

IsEs == driver = "elasticsearch"

\* The document-store query of contract c takes the scan path.
EsDeep(c) ==
    IsEs /\ c.offset + (IF c.resulttype = "hits" THEN 0 ELSE c.limit)
                > ScrollThreshold

\* The stored record a returned feature was made from.
StoredRecord(id) == CHOOSE d \in Range(store) : d.id = id

\* The positions in the store of the records the compiled filter of
\* contract c lets through.
Satisfying(c) ==
    IF IsEs
    THEN {i \in DOMAIN store : EsHolds(EsCompile(c), store[i])}
    ELSE {i \in DOMAIN store :
             \A k \in DOMAIN SqlFilters(c) :
                 SqlFilterHolds(SqlFilters(c)[k], store[i])}

FeatureIds == {response.features[i].id : i \in DOMAIN response.features}

\* C1: every feature collection a query returns, on either strategy, has
\* numberReturned == len(features), numberReturned <= limit and
\* numberReturned <= numberMatched.
C1_ReturnedCount ==
    ReturnedCollection =>
        /\ "numberReturned" \in DOMAIN response
        /\ response.numberReturned = Len(response.features)
        /\ response.numberReturned <= call.args.limit
        /\ response.numberReturned <= response.numberMatched

\* C2: a query with resulttype 'hits' that returns a feature collection
\* returns it with an empty features sequence, whatever limit and offset
\* were requested, on both strategies.
C2_HitsHaveNoFeatures ==
    (ReturnedCollection /\ call.args.resulttype = "hits") =>
        response.features = <<>>

\* C2 witness: a hits query on the document store asking for a window
\* beyond 10000 of an index with matching documents.
C2_Witness ==
    /\ ReturnedCollection
    /\ IsEs
    /\ call.args.resulttype = "hits"
    /\ call.args.offset + call.args.limit > ScrollThreshold
    /\ call.args.limit > 0
    /\ response.numberMatched > 0
    /\ response.features = <<>>

\* C3 as claimed: numberMatched is the number of records satisfying the
\* filter, for every offset and limit.
C3_MatchedIsTotal ==
    ReturnedCollection =>
        response.numberMatched = Cardinality(Satisfying(call.args))

\* C3 amended: numberMatched is the number of records satisfying the
\* filter on the relational strategy and on the direct path of the
\* document store; on the scan path it is offset plus the number of
\* records collected.
C3_MatchedIsTotalUnlessDeep ==
    ReturnedCollection =>
        response.numberMatched =
            IF EsDeep(call.args)
            THEN call.args.offset + Len(response.features)
            ELSE Cardinality(Satisfying(call.args))

\* C3 witness: a page from inside a filtered result set reports the whole
\* filtered set, which is smaller than the store.
C3_Witness ==
    /\ ReturnedCollection
    /\ call.args.offset = 1
    /\ call.args.limit = 1
    /\ call.args.bbox # <<>>
    /\ response.numberMatched = Cardinality(Satisfying(call.args))
    /\ response.numberMatched > 1
    /\ response.numberMatched < Len(store)
    /\ Len(response.features) = 1

\* The features direct mode returns for the window of contract c.
DirectWindow(c) ==
    LET hits == EsSearch(store, EsCompile(c), c.offset, c.limit).hits
    IN [i \in 1..Len(hits) |-> esdoc2geojson(hits[i], c.select_properties)]

\* C4: on the document store, a query with offset + limit > 10000 returns
\* the records at positions [offset, offset + limit) of the matched set
\* in sort order: the sequence direct mode returns for that window.
C4_DeepWindowIsDirectWindow ==
    (ReturnedCollection /\ IsEs /\ call.args.resulttype = "results"
        /\ call.args.offset + call.args.limit > ScrollThreshold) =>
        response.features = DirectWindow(call.args)

\* C4 witness: a sorted window beyond 10000 that is returned in full.
C4_Witness ==
    /\ ReturnedCollection
    /\ IsEs
    /\ call.args.resulttype = "results"
    /\ call.args.offset + call.args.limit > ScrollThreshold
    /\ call.args.sortby # <<>>
    /\ call.args.limit = MaxLimit
    /\ Len(response.features) = MaxLimit
    /\ response.features[1].id # response.features[2].id

NoFilterBut(c, keep) ==
    /\ keep = "bbox" \/ c.bbox = <<>>
    /\ keep = "datetime" \/ c.datetime_ = <<>>
    /\ keep = "properties" \/ c.properties = <<>>
    /\ c.q = None
    /\ c.filterq = None

\* C5: with a bbox and no other filter, in every strategy, exactly the
\* features whose geometry intersects the envelope of the bbox are
\* matched: disjoint ones never, inside and partly overlapping ones
\* always.
C5_BboxIntersects ==
    (ReturnedCollection /\ call.args.bbox # <<>>
        /\ NoFilterBut(call.args, "bbox")) =>
        LET hit == {i \in DOMAIN store :
                       /\ store[i].geometry # <<>>
                       /\ RectIntersects(call.args.bbox, store[i].geometry)}
        IN /\ FeatureIds \subseteq {store[i].id : i \in hit}
           /\ ~EsDeep(call.args) => response.numberMatched = Cardinality(hit)

InTimeRange(t, start, end) ==
    /\ start = ".." \/ TimeRank(t) >= TimeRank(start)
    /\ end = ".." \/ TimeRank(t) <= TimeRank(end)

\* C6: a datetime 'start/end' with a configured temporal field matches, in
\* both strategies, exactly the records whose temporal value t satisfies
\* (start == '..' or t >= start) and (end == '..' or t <= end).
C6_DatetimeRange ==
    (Queried /\ time_field # None /\ Len(call.args.datetime_) = 2
        /\ NoFilterBut(call.args, "datetime")) =>
        LET hit == {i \in DOMAIN store :
                       InTimeRange(store[i].datetime, call.args.datetime_[1],
                                   call.args.datetime_[2])}
        IN /\ "features" \in DOMAIN response
           /\ FeatureIds \subseteq {store[i].id : i \in hit}
           /\ ~EsDeep(call.args) => response.numberMatched = Cardinality(hit)

\* C7: a query carrying a datetime on a provider without a temporal field
\* fails with a QueryError, in both strategies and for every datetime.
C7_DatetimeNeedsTimeField ==
    (Queried /\ call.args.datetime_ # <<>> /\ time_field = None) =>
        /\ "error" \in DOMAIN response
        /\ response.error = "ProviderQueryError"

\* C8: every returned feature has, for every (field, value) pair of the
\* property filters, its property field equal to value.
C8_PropertyFiltersExact ==
    (ReturnedCollection /\ call.args.properties # <<>>) =>
        \A i \in DOMAIN response.features :
            \A j \in DOMAIN call.args.properties :
                StoredRecord(response.features[i].id)
                    [call.args.properties[j][1]] = call.args.properties[j][2]

SortValue(d, property) ==
    IF property = "name" THEN NameRank(d.name) ELSE d[property]

\* C9: the features come in descending order of the first sortBy property
\* if its direction is '-', and in ascending order for every other
\* direction, in both strategies.
C9_SortDirection ==
    (ReturnedCollection /\ call.args.sortby # <<>>) =>
        LET first == Head(call.args.sortby)
            key(i) == SortValue(StoredRecord(response.features[i].id),
                                first.property)
        IN \A i, j \in DOMAIN response.features :
               i < j => IF first.order = "-" THEN key(i) >= key(j)
                        ELSE key(i) <= key(j)

\* The identifiers of S in ascending order.
Ascending(S) ==
    CHOOSE p \in Perms(S) : \A i, j \in DOMAIN p : i < j => p[i] < p[j]

\* C10: on the relational strategy a query without sortBy returns
\* identifiers in strictly ascending order, and returns the window
\* [offset, offset + limit) of the matching identifiers sorted ascending,
\* which the data and the query alone determine.
C10_DefaultOrderById ==
    (ReturnedCollection /\ ~IsEs /\ call.args.sortby = <<>>
        /\ call.args.resulttype = "results") =>
        LET ids == [i \in DOMAIN response.features |->
                       response.features[i].id]
            all == Ascending({store[i].id : i \in Satisfying(call.args)})
        IN /\ \A i, j \in DOMAIN ids : i < j => ids[i] < ids[j]
           /\ ids = SubSeq(all, call.args.offset + 1,
                           Min(call.args.offset + call.args.limit, Len(all)))

\* C10 witness: a page of two rows from inside the table, no sortBy.
C10_Witness ==
    /\ ReturnedCollection
    /\ ~IsEs
    /\ call.args.sortby = <<>>
    /\ call.args.offset = 1
    /\ Len(response.features) >= 2
    /\ response.features[1].id < response.features[2].id

-----------------------------------------------------------------------------
(* Properties of projection *)

\* The field set a query of contract c selects: the allow-list, the
\* explicit selection, or what the allow-list lets through of the
\* selection; every field when neither is present.
SelectedFields(c) ==
    IF properties = <<>> /\ c.select_properties = <<>> THEN PropNames
    ELSE IF c.select_properties = <<>> THEN Range(properties)
    ELSE IF properties = <<>> THEN Range(c.select_properties)
    ELSE Range(c.select_properties) \cap Range(properties)

\* C11: every feature a query returns has properties holding exactly the
\* selected field set (every field when there is neither an allow-list nor
\* a selection), has id, type and geometry at the top level, and carries
\* the stored geometry unless skipGeometry is set.
C11_ProjectionExact ==
    ReturnedCollection =>
        \A i \in DOMAIN response.features :
            LET f == response.features[i]
            IN /\ {"id", "type", "geometry", "properties"} \subseteq DOMAIN f
               /\ DOMAIN f.properties = SelectedFields(call.args)
               /\ ~call.args.skip_geometry =>
                      f.geometry = StoredRecord(f.id).geometry

-----------------------------------------------------------------------------
(* Properties of concurrent calls *)

\* C12: when query calls with different selectProperties interleave on one
\* document-store provider instance, each call returns what it returns
\* when it runs alone: the features projected by its own selectProperties.
C12_CallsAreIsolated ==
    \A t \in Threads :
        threads[t].pc = "done" =>
            threads[t].response = EsQuery(threads[t].args)

-----------------------------------------------------------------------------
(* Properties of the calls on single items *)

CallDone(op) == pc = "done" /\ call.op = op

Succeeded == "result" \in DOMAIN response

\* What get(identifier) returns or raises when it is called now
GetNow(identifier) ==
    IF IsEs THEN EsGet(identifier, select_properties).response
    ELSE SqlGet(identifier)

\* The properties the allow-list lets through
Allowed(props) ==
    IF properties = <<>> THEN props
    ELSE [k \in DOMAIN props \cap Range(properties) |-> props[k]]

\* C13: get(create(item)) returns a feature whose geometry is the item's
\* and whose properties are the item's as far as the allow-list lets them
\* through, in both strategies.
C13_RoundTrip ==
    (CallDone("create") /\ Succeeded) =>
        LET feature == GetNow(response.result)
        IN /\ "error" \notin DOMAIN feature
           /\ feature.geometry = call.args.item.geometry
           /\ feature.properties = Allowed(call.args.item.properties)

\* The geometry and the properties a stored record holds
Content(r) ==
    [geometry   |-> r.geometry,
     properties |-> [k \in PropNames |-> r[k]]]

\* The records kept under other ids than identifier
Others(docs, identifier) == {d \in Range(docs) : DocId(d) # identifier}

\* A step in which a write call of kind op takes effect and succeeds: the
\* whole call on the document store, the commit on the relational one.
Effect(op) ==
    /\ pc \in {"idle", "in_session"}
    /\ pc' \in {"done", "exiting"}
    /\ call'.op = op
    /\ "result" \in DOMAIN response'

\* C14: when update(identifier, item) succeeds, the store then holds the
\* content of item under identifier, and the records under every other id
\* are the ones it held before, in both strategies, also when the item
\* carries another id.
C14_UpdateByIdentifier ==
    [][Effect("update") =>
          LET identifier == call'.args.identifier
              item == call'.args.item
          IN /\ \E k \in DOMAIN store' :
                    /\ DocId(store'[k]) = identifier
                    /\ Content(store'[k]) =
                           [geometry |-> item.geometry,
                            properties |-> item.properties]
             /\ Others(store', identifier) = Others(store, identifier)]_vars

\* C15: on the relational strategy a delete(identifier) the database takes
\* returns true exactly when a row with that identifier existed; afterwards
\* no row has the identifier and every other row is as before.
C15_DeleteReportsRemoval ==
    [][(Effect("delete") /\ ~IsEs) =>
          LET identifier == call'.args.identifier
          IN /\ response'.result =
                    (\E k \in DOMAIN store : store[k].id = identifier)
             /\ \A k \in DOMAIN store' : store'[k].id # identifier
             /\ Others(store', identifier) = Others(store, identifier)]_vars

\* C15 witness: a delete of an identifier no row of a non-empty table has
\* returned false.
C15_Witness ==
    /\ CallDone("delete")
    /\ ~IsEs
    /\ Succeeded
    /\ response.result = FALSE
    /\ store # <<>>

\* No record has identifier as its native id or as its id member.
MatchesNoRecord(identifier) ==
    \A k \in DOMAIN store :
        /\ DocId(store[k]) # identifier
        /\ "id" \in DOMAIN store[k] => store[k].id # identifier

\* C16: get(identifier) for an identifier matching no record raises
\* ItemNotFoundError in both strategies; the document-store strategy
\* raises it only after the lookup by native id and then the fallback
\* search have been sent.
C16_GetNotFound ==
    CallDone("get") =>
        /\ MatchesNoRecord(call.args.identifier) =>
               response = [error |-> "ProviderItemNotFoundError"]
        /\ (IsEs /\ "error" \in DOMAIN response) =>
               /\ response.error = "ProviderItemNotFoundError"
               /\ requests = <<"get", "search">>

\* C16 witness: the document store holds records, none under the
\* identifier asked for.
C16_Witness ==
    /\ CallDone("get")
    /\ IsEs
    /\ store # <<>>
    /\ MatchesNoRecord(call.args.identifier)
    /\ response = [error |-> "ProviderItemNotFoundError"]

\* C17: relational get(identifier) returns as prev the greatest stored
\* identifier below identifier and as next the least one above it, and
\* identifier itself where there is none.
C17_PrevNext ==
    (CallDone("get") /\ ~IsEs /\ "error" \notin DOMAIN response) =>
        LET identifier == call.args.identifier
            ids == {store[k].id : k \in DOMAIN store}
            isPrev(v) == IF \E w \in ids : w < identifier
                         THEN /\ v \in ids /\ v < identifier
                              /\ \A w \in ids : w < identifier => w <= v
                         ELSE v = identifier
            isNext(v) == IF \E w \in ids : w > identifier
                         THEN /\ v \in ids /\ v > identifier
                              /\ \A w \in ids : w > identifier => w >= v
                         ELSE v = identifier
        IN isPrev(response.prev) /\ isNext(response.next)

\* C17 witness: the row asked for has two rows below it and a neighbour
\* on one side only.
C17_Witness ==
    /\ CallDone("get")
    /\ ~IsEs
    /\ "error" \notin DOMAIN response
    /\ Cardinality({k \in DOMAIN store :
                       store[k].id < call.args.identifier}) >= 2
    /\ response.prev = call.args.identifier - 1
    /\ response.next = call.args.identifier

\* C18: on the relational strategy no session is open when no call is in
\* progress or a call has ended, whether it returned, refused the item or
\* failed in the database; while a write is inside its with-block the one
\* open session is the one that call opened.
C18_SessionsScoped ==
    ~IsEs =>
        /\ pc \in {"idle", "done"} => sessions = {}
        /\ pc \in {"in_session", "exiting"} =>
               sessions = {[owner |-> call.op]}

\* C18 witness: a write that failed in the database has ended and its
\* session is closed.
C18_Witness ==
    /\ ~IsEs
    /\ pc = "done"
    /\ call.op \in {"create", "update", "delete"}
    /\ response = [error |-> "SQLAlchemyError"]
    /\ sessions = {}

-----------------------------------------------------------------------------
(* Properties of construction and of the field catalog *)

\* C19: on a provider whose construction succeeded (its get_fields call
\* returned), every get_fields call returns the catalog the provider
\* holds, whatever it is, and sends no request to the store.
C19_FieldsCached ==
    [][(pc = "idle" /\ pc' = "done" /\ call'.op = "get_fields") =>
          /\ response' = [result |-> fields]
          /\ fields' = fields
          /\ requests' = <<>>]_vars

\* C20: a construction against a store that is unreachable, or (document
\* store) of a version below 8, raises ConnectionError; against a store
\* that is up and supported but lacks the index or table it raises
\* QueryError; the provider is ready only when none of these is the case.
C20_ConstructionChecks ==
    CallDone("construct") =>
        LET down == ~backend.reachable
            old  == IsEs /\ VersionTenths(backend.version) < 80
        IN /\ (down \/ (~down /\ old)) =>
                  response = [error |-> "ProviderConnectionError"]
           /\ (~down /\ ~old /\ ~backend.exists) =>
                  response = [error |-> "ProviderQueryError"]
           /\ status = "ready" =>
                  backend.reachable /\ ~old /\ backend.exists

-----------------------------------------------------------------------------
(* Properties of the document-store query: paging mode, projection, filter *)

\* C21: on the document store the paging mode follows from offset + limit
\* alone (limit as the query works with it: 0 on resulttype 'hits').  When
\* offset + limit > 10000 the scan is used and numberMatched == offset +
\* numberReturned; when offset + limit <= 10000 the search is used and
\* numberMatched is the total the index reports for the compiled query.
C21_ModeByWindow ==
    (ReturnedCollection /\ IsEs) =>
        IF EsDeep(call.args)
        THEN /\ "numberReturned" \in DOMAIN response
             /\ response.numberMatched =
                    call.args.offset + response.numberReturned
        ELSE response.numberMatched =
                 EsSearch(store, EsCompile(call.args), 0, 0).total

\* C22: whenever a document-store query carries free text, the source
\* filter of the compiled query keeps the three internal metadata fields
\* out of the hits, also when the query skips the geometry, selects
\* properties or runs under an allow-list.
C22_MetadataSuppressed ==
    (Queried /\ IsEs /\ call.args.q # None) =>
        \A m \in MetadataFields : ~SourceVisible(EsCompile(call.args), m)

\* C23: on a provider of either document-store class, the catalogue
\* subclass included, a query called with a CQL filter never returns a
\* feature whose stored record does not satisfy the filter expression.
C23_CqlFilterApplied ==
    (ReturnedCollection /\ driver \in EsClasses
        /\ call.args.filterq # None) =>
        \A i \in DOMAIN response.features :
            CqlHolds(call.args.filterq,
                     StoredRecord(response.features[i].id))

-----------------------------------------------------------------------------
(* Properties of the allow-list and of get after query *)

\* The features the call that has returned hands to its caller.
ReturnedFeatures ==
    IF ReturnedCollection THEN Range(response.features)
    ELSE IF CallDone("get") /\ "error" \notin DOMAIN response
         THEN {response}
         ELSE {}

\* C24: on a provider configured with a property allow-list, no feature a
\* query or a get returns has a property outside the allow-list, whatever
\* properties the caller selects, in both strategies.
C24_AllowListBounds ==
    properties # <<>> =>
        \A f \in ReturnedFeatures :
            "properties" \in DOMAIN f =>
                DOMAIN f.properties \subseteq Range(properties)

\* C25: on the document store, what get(identifier) returns depends only
\* on the identifier, the provider configuration and the store contents:
\* it is what a provider instance on which no query was made returns
\* (self.select_properties as __init__ leaves it), whichever queries were
\* made before on this instance.
C25_GetIgnoresEarlierQueries ==
    (CallDone("get") /\ IsEs) =>
        response = EsGet(call.args.identifier, <<>>).response

====
